---- MODULE Spec2Model ----
(***************************************************************************)
(* Model of the image minibatch reader in                                  *)
(* DataReader/ImageReader/ImageReader.cpp: the manifest, the epoch and     *)
(* minibatch position, the parallel per-sample loop of GetMinibatch, and   *)
(* the pooled random generators of the Crop and Scale transforms.          *)
(*                                                                         *)
(* Manifest indices are 0-based as in the code; TLA+ sequences are         *)
(* 1-based, so manifest entry k is files[k + 1] and buffer element k is    *)
(* buf[k + 1].                                                             *)
(***************************************************************************)
EXTENDS Integers, Sequences, FiniteSets, TLC

\* ---------------------------------------------------------------- bounds
MaxFiles   == 3      \* longest manifest
MaxShuffled == 2     \* longest manifest read with randomize=auto
MaxMb      == 2      \* largest mbSize passed to StartMinibatchLoop
MaxEpoch   == 1      \* largest epoch index passed to StartMinibatchLoop
MaxReq     == 2      \* largest explicit requestedEpochSamples
MaxThreads == 2      \* largest OpenMP team
MaxSeed    == 1      \* largest seed passed to SetRandomSeed
RngPeriod  == 2      \* period of the modelled generator sequence
MaxDim     == 3      \* most rows and columns of the images that are cropped
MaxDen     == 3      \* largest denominator of a crop ratio

\* ------------------------------------------------------ program constants
\* ((size_t)-1) >> 2 for a 32-bit size_t: the "use the full data set" value.
requestDataSize == 1073741823
\* labelDim, width * height * channels of the configuration under study.
LabDim  == 2
FeatDim == 2

\* ------------------------------------------------------------- helpers
Min(a, b) == IF a < b THEN a ELSE b
Max(a, b) == IF a > b THEN a ELSE b

RECURSIVE SumSeq(_)
SumSeq(s) == IF s = <<>> THEN 0 ELSE Head(s) + SumSeq(Tail(s))

Threads == 1 .. MaxThreads

\* A pixel value is abstracted by what determines it: the source image, the
\* crop rectangle, the flip, the interpolation, and its position k inside
\* the sample. ZeroElem is static_cast<ElemType>(0).
ZeroElem == <<0, 0, 0, 0, 0, 0, 0>>

\* The decoded image of a path (cv::imread): its identity, rows and cols.
\* The image files of the runs: file 0 cannot be decoded (imread returns an
\* empty image), files 1 .. 9 are 2 rows by 2 or 3 columns, and a file
\* named 10 * r + c is r rows by c columns.
ImgRows(path) == IF path = 0 THEN 0 ELSE IF path < 10 THEN 2 ELSE path \div 10
ImgCols(path) ==
    IF path = 0 THEN 0 ELSE IF path < 10 THEN 2 + (path % 2) ELSE path % 10

imread(path) == [path |-> path, rows |-> ImgRows(path), cols |-> ImgCols(path),
                 x |-> 0, y |-> 0, size |-> 0, flip |-> 0, interp |-> 0]

\* cv::Mat::empty()
Empty(img) == img.rows = 0 \/ img.cols = 0

NoImg == [path |-> 0, rows |-> 0, cols |-> 0,
          x |-> 0, y |-> 0, size |-> 0, flip |-> 0, interp |-> 0]

\* ------------------------------------------------------------ generators
\* std::mt19937: a deterministic sequence fixed by the seed; pos is the
\* number of values drawn so far (the sequence is cut to a short period).
NoRng == [id |-> 0, seed |-> 0, pos |-> 0]

make_rng(id, seed) == [id |-> id, seed |-> seed, pos |-> 0]

Mt(seed, pos) == (7 * seed + 3 * pos + 1) % 16

\* UniIntT(lo, hi)(rng), bernoulli_distribution()(rng): value and new state.
UniInt(g, lo, hi) == lo + (Mt(g.seed, g.pos) % (hi - lo + 1))
Advance(g) == [g EXCEPT !.pos = (g.pos + 1) % RngPeriod]

\* conc_stack::pop_or_create and conc_stack::push (one atomic step each).
pop_or_create(stack, id, seed) ==
    IF stack = <<>>
    THEN [rng |-> make_rng(id, seed), stack |-> <<>>, created |-> TRUE]
    ELSE [rng |-> Head(stack), stack |-> Tail(stack), created |-> FALSE]

push(stack, g) == <<g>> \o stack

\* ---------------------------------------------------------------- strings
\* A std::string is the sequence of its characters.
none == <<"n", "o", "n", "e">>
auto == <<"a", "u", "t", "o">>

Upper == <<"A", "B", "C", "D", "E", "F", "G", "H", "I", "J", "K", "L", "M",
           "N", "O", "P", "Q", "R", "S", "T", "U", "V", "W", "X", "Y", "Z">>
Lower == <<"a", "b", "c", "d", "e", "f", "g", "h", "i", "j", "k", "l", "m",
           "n", "o", "p", "q", "r", "s", "t", "u", "v", "w", "x", "y", "z">>

\* std::tolower in the C locale.
tolower(c) ==
    IF \E k \in DOMAIN Upper : Upper[k] = c
    THEN Lower[CHOOSE k \in DOMAIN Upper : Upper[k] = c]
    ELSE c

\* AreEqual(s1, s2): std::equal over [s1.begin(), s1.end()) against the
\* characters of s2 from s2.begin() on, so only the first |s1| characters
\* are compared. When s1 is longer than s2 and s2 is a prefix of it, the
\* comparison reads past the end of s2 (undefined): either answer.
AreEqual(s1, s2) ==
    IF \E k \in 1 .. Min(Len(s1), Len(s2)) : tolower(s1[k]) # tolower(s2[k])
    THEN {FALSE}
    ELSE IF Len(s1) <= Len(s2) THEN {TRUE} ELSE {TRUE, FALSE}

\* -------------------------------------------------------------- inputs
\* Manifests the loader accepts: n lines, line k (1-based) names image k;
\* std::stoi accepts any integer class id, so labels are not confined to
\* 0 .. labelDim-1.
LabelOf(k, off, m) == (k + off) % m

Manifests ==
    { [k \in 1 .. n |-> [path |-> k, label |-> LabelOf(k, 0, m)]] :
        n \in 1 .. MaxFiles, m \in {LabDim, LabDim + 1} }

\* Configurations: cropType, cropRatio (ratioNum / ratioDen), hflip, the
\* number of recognised interpolation names, randomize. jitterType is None.
Configs ==
    { [cropType |-> "Center", ratioNum |-> 1, ratioDen |-> 1,
       hFlip |-> FALSE, nInterp |-> 1],
      [cropType |-> "Random", ratioNum |-> 1, ratioDen |-> 2,
       hFlip |-> TRUE, nInterp |-> 2] }

ReqValues == (1 .. MaxReq) \cup {requestDataSize}

VARIABLES
    phase,          \* "constructed", "configured", "loop", "parallel",
                    \* "error" (RuntimeError thrown), "failed" (library
                    \* exception thrown), "aborted" (process ended)
    files,          \* the manifest, in current iteration order
    m_imgListRand,
    randomize,      \* the value of the randomize parameter given to Init
    m_seed,         \* ImageReader::m_seed
    cropSeed,       \* CropTransform::m_seed
    scaleSeed,      \* ScaleTransform::m_seed
    cropRngs,       \* CropTransform::m_rngs
    scaleRngs,      \* ScaleTransform::m_rngs
    cfg,            \* the transforms' parsed configuration
    nThreads,       \* size of the OpenMP team
    m_epoch, m_epochSize, m_epochStart, m_mbStart, m_mbSize,
    m_featBuf, m_labBuf,
    mbLim,          \* local of GetMinibatch
    nextIter,       \* next loop index the dynamic schedule hands out
    cropMade,       \* generators CropTransform::m_rngs has constructed
    scaleMade,      \* generators ScaleTransform::m_rngs has constructed
    wk,             \* per thread: pc, loop index i, entry p, img, held rng
    ret,            \* result of the last GetMinibatch since loop start
    endRet,         \* result of the last DataEnd: "none", "true", "false"
    hist            \* observations of the run (not program state)

vars == <<phase, files, m_imgListRand, m_seed, cropSeed, scaleSeed, cropRngs,
          scaleRngs, cfg, nThreads, m_epoch, m_epochSize, m_epochStart,
          m_mbStart, m_mbSize, m_featBuf, m_labBuf, mbLim,
          nextIter, cropMade, scaleMade, wk, ret, hist, randomize, endRet>>

readerVars == <<files, m_imgListRand, randomize, cfg, nThreads>>
epochVars  == <<m_epoch, m_epochSize, m_epochStart, m_mbStart, m_mbSize>>
poolVars   == <<cropRngs, scaleRngs, cropMade, scaleMade>>
seedVars   == <<m_seed, cropSeed, scaleSeed>>
bufVars    == <<m_featBuf, m_labBuf>>

IdleWk == [pc |-> "idle", i |-> 0, p |-> [path |-> 0, label |-> 0],
           img |-> NoImg, rng |-> NoRng]

\* hist: cols      = actual batch size of the last successful GetMinibatch
\*       delivered = samples handed out since the last loop start
\*       seedSet   = a SetRandomSeed has been called
\*       req       = requestedEpochSamples of the last StartMinibatchLoop
\*       loops     = StartMinibatchLoop calls since Init: 0, 1, or 2 for more
\*       featW, labW = buffer writes of the running parallel loop, each
\*                   <<loop index, buffer index>>
\*       loaded    = the manifest as Init read it
\*       cropPeak, scalePeak = the most Apply calls of the transform that
\*                   held a generator at the same time
InitHist == [cols |-> 0, delivered |-> 0, seedSet |-> FALSE, req |-> 0,
             loops |-> 0, featW |-> {}, labW |-> {}, loaded |-> <<>>,
             cropPeak |-> 0, scalePeak |-> 0]

\* ------------------------------------------------------------------ Init
\* ImageReader::ImageReader(): m_seed(0), both transforms built from m_seed.
Init ==
    /\ phase = "constructed"
    /\ files = <<>>
    /\ m_imgListRand = TRUE
    /\ randomize = <<>>
    /\ m_seed = 0
    /\ cropSeed = 0
    /\ scaleSeed = 0
    /\ cropRngs = <<>>
    /\ scaleRngs = <<>>
    /\ cfg = [cropType |-> "Center", ratioNum |-> 1, ratioDen |-> 1,
              hFlip |-> FALSE, nInterp |-> 1]
    /\ nThreads = 1
    /\ m_epoch = 0 /\ m_epochSize = 0 /\ m_epochStart = 0
    /\ m_mbStart = 0 /\ m_mbSize = 0
    /\ m_featBuf = <<>> /\ m_labBuf = <<>>
    /\ mbLim = 0
    /\ nextIter = 0
    /\ cropMade = 0
    /\ scaleMade = 0
    /\ wk = [t \in Threads |-> IdleWk]
    /\ ret = "none"
    /\ endRet = "none"
    /\ hist = InitHist

\* ------------------------------------------------------ ImageReader::Init
\* Loads the manifest, resolves randomize (lines 356-360), zeroes the
\* position. Any value that compares equal to neither "none" nor "auto"
\* raises RuntimeError, before the position is reset. The team size of the
\* later parallel loops is fixed by the environment here.
ReaderInit(manifest, config, rand, threads) ==
    /\ phase = "constructed"
    /\ files' = files \o manifest
    /\ cfg' = config
    /\ nThreads' = threads
    /\ randomize' = rand
    /\ hist' = [hist EXCEPT !.loaded = files \o manifest]
    /\ \E eqNone \in AreEqual(rand, none), eqAuto \in AreEqual(rand, auto) :
          /\ m_imgListRand' = IF eqNone THEN FALSE ELSE m_imgListRand
          /\ phase' = IF eqNone \/ eqAuto THEN "configured" ELSE "error"
    /\ m_epochStart' = 0
    /\ m_mbStart' = 0
    /\ UNCHANGED <<endRet, m_epoch, m_epochSize, m_mbSize, seedVars, poolVars,
                   bufVars, mbLim, nextIter, wk, ret>>

\* ---------------------------------------- ImageReader::StartMinibatchLoop
InsertAt(s, k, e) == SubSeq(s, 1, k - 1) \o <<e>> \o SubSeq(s, k, Len(s))

RECURSIVE Orderings(_)
Orderings(s) ==
    IF s = <<>> THEN { <<>> }
    ELSE UNION { { InsertAt(r, k, Head(s)) : k \in 1 .. Len(r) + 1 } :
                   r \in Orderings(Tail(s)) }

\* Shuffled without the test of m_imgListRand.
ShuffledAlways(s, doShuffle) == Orderings(s)

\* std::shuffle(files.begin(), files.end(), m_rng): some permutation.
Shuffled(s, doShuffle) == IF doShuffle THEN Orderings(s) ELSE {s}

EpochSizeOf(requestedEpochSamples, nFiles) ==
    IF requestedEpochSamples = requestDataSize THEN nFiles
    ELSE requestedEpochSamples

\* StartState with line 389 (m_mbStart = 0) left out.
StartStateKeepsMbStart(nFiles, oldMbStart, mbSize, epoch, requestedEpochSamples) ==
    LET es == EpochSizeOf(requestedEpochSamples, nFiles)
        st == epoch * es
    IN  [epoch      |-> epoch,
         epochSize  |-> es,
         mbSize     |-> mbSize,
         epochStart |-> IF st >= nFiles THEN 0 ELSE st,
         mbStart    |-> oldMbStart]

\* StartState without the wrap of lines 386-390.
StartStateNoWrap(nFiles, oldMbStart, mbSize, epoch, requestedEpochSamples) ==
    LET es == EpochSizeOf(requestedEpochSamples, nFiles)
    IN  [epoch      |-> epoch,
         epochSize  |-> es,
         mbSize     |-> mbSize,
         epochStart |-> epoch * es,
         mbStart    |-> oldMbStart]

\* The epoch state StartMinibatchLoop leaves behind (lines 380-390).
StartState(nFiles, oldMbStart, mbSize, epoch, requestedEpochSamples) ==
    LET es == EpochSizeOf(requestedEpochSamples, nFiles)
        st == epoch * es
    IN  [epoch      |-> epoch,
         epochSize  |-> es,
         mbSize     |-> mbSize,
         epochStart |-> IF st >= nFiles THEN 0 ELSE st,
         mbStart    |-> IF st >= nFiles THEN 0 ELSE oldMbStart]

\* assert(requestedEpochSamples == requestDataSize || m_epochSize % m_mbSize == 0)
MultipleOk(mbSize, requestedEpochSamples, nFiles) ==
    \/ requestedEpochSamples = requestDataSize
    \/ EpochSizeOf(requestedEpochSamples, nFiles) % mbSize = 0

\* std::vector::resize(n): keeps the leading elements, pads with zero.
Resize(buf, n, zero) ==
    [k \in 1 .. n |-> IF k <= Len(buf) THEN buf[k] ELSE zero]

StartMinibatchLoop(mbSize, epoch, requestedEpochSamples) ==
    /\ phase \in {"configured", "loop"}
    /\ mbSize > 0
    /\ requestedEpochSamples > 0
    /\ \E order \in Shuffled(files, m_imgListRand) :
         LET s == StartState(Len(files), m_mbStart, mbSize, epoch,
                             requestedEpochSamples)
         IN  /\ files' = order
             /\ m_epochSize' = s.epochSize
             /\ m_mbSize' = s.mbSize
             /\ \/ \* the assertion holds, or is compiled out (NDEBUG)
                   /\ phase' = "loop"
                   /\ m_epoch' = s.epoch
                   /\ m_epochStart' = s.epochStart
                   /\ m_mbStart' = s.mbStart
                   /\ m_featBuf' = Resize(m_featBuf, mbSize * FeatDim, ZeroElem)
                   /\ m_labBuf' = Resize(m_labBuf, mbSize * LabDim, 0)
                   /\ ret' = "none"
                   /\ hist' = [hist EXCEPT !.delivered = 0, !.cols = 0,
                                           !.req = requestedEpochSamples,
                                           !.loops = Min(@ + 1, 2)]
                \/ \* the assertion fails in a build that checks it
                   /\ ~MultipleOk(mbSize, requestedEpochSamples, Len(files))
                   /\ phase' = "aborted"
                   /\ UNCHANGED <<m_epoch, m_epochStart, m_mbStart, bufVars,
                                  ret, hist>>
    /\ UNCHANGED <<endRet, m_imgListRand, randomize, cfg, nThreads, seedVars,
                   poolVars, mbLim, nextIter, wk>>

\* ------------------------------------------- ImageReader::SetRandomSeed
\* SetRandomSeed that also rewinds the read position.
SetRandomSeedRewinds(seed) ==
    /\ phase \in {"configured", "loop"}
    /\ m_seed' = seed
    /\ m_mbStart' = 0
    /\ hist' = [hist EXCEPT !.seedSet = TRUE]
    /\ UNCHANGED <<endRet, phase, readerVars, cropSeed, scaleSeed, poolVars,
                   m_epoch, m_epochSize, m_epochStart, m_mbSize, bufVars,
                   mbLim, nextIter, wk, ret>>

\* m_seed = seed; m_rng.seed(m_seed). m_rng only drives std::shuffle, whose
\* result is modelled as any permutation, so its state is not kept.
SetRandomSeed(seed) ==
    /\ phase \in {"configured", "loop"}
    /\ m_seed' = seed
    /\ hist' = [hist EXCEPT !.seedSet = TRUE]
    /\ UNCHANGED <<endRet, phase, readerVars, cropSeed, scaleSeed, poolVars,
                   epochVars, bufVars, mbLim, nextIter, wk, ret>>

\* ------------------------------------------------ CropTransform (Apply)
\* GetCropRect with the crop side taken from the longer side of the image.
GetCropRectOnLongSide(type, crow, ccol, ratioNum, ratioDen, g) ==
    LET cropSize == (Max(crow, ccol) * ratioNum) \div ratioDen
    IN  IF type = "Center"
        THEN [x |-> (ccol - cropSize) \div 2, y |-> (crow - cropSize) \div 2,
              size |-> cropSize, rng |-> g]
        ELSE LET g1 == Advance(g)
             IN  [x |-> UniInt(g, 0, ccol - cropSize),
                  y |-> UniInt(g1, 0, crow - cropSize),
                  size |-> cropSize, rng |-> Advance(g1)]

\* GetCropRect: the square crop rectangle and the generator state after it.
GetCropRect(type, crow, ccol, ratioNum, ratioDen, g) ==
    LET cropSize == (Min(crow, ccol) * ratioNum) \div ratioDen
    IN  IF type = "Center"
        THEN [x |-> (ccol - cropSize) \div 2, y |-> (crow - cropSize) \div 2,
              size |-> cropSize, rng |-> g]
        ELSE LET g1 == Advance(g)
             IN  [x |-> UniInt(g, 0, ccol - cropSize),
                  y |-> UniInt(g1, 0, crow - cropSize),
                  size |-> cropSize, rng |-> Advance(g1)]

\* Lines 81-96 on the generator the caller holds: crop, then maybe flip.
CropImage(img, config, g) ==
    LET r    == GetCropRect(config.cropType, img.rows, img.cols,
                            config.ratioNum, config.ratioDen, g)
        flip == IF config.hFlip THEN UniInt(r.rng, 0, 1) ELSE 0
    IN  [img |-> [img EXCEPT !.rows = r.size, !.cols = r.size, !.x = r.x,
                             !.y = r.y, !.size = r.size, !.flip = flip],
         rng |-> IF config.hFlip THEN Advance(r.rng) ELSE r.rng]

\* ----------------------------------------------- ScaleTransform (Apply)
\* Lines 223-225: one draw picks the interpolation; the result has the
\* configured width and height.
ScaleImage(img, config, g) ==
    [img |-> [img EXCEPT !.interp = 1 + UniInt(g, 0, config.nInterp - 1)],
     rng |-> Advance(g)]

\* ------------------------------------------- ImageReader::GetMinibatch
\* Exhausted without the end-of-epoch test of line 406.
ExhaustedAtFileEnd(mbStart, nFiles, epochStart, epochSize) ==
    mbStart >= nFiles

Exhausted(mbStart, nFiles, epochStart, epochSize) ==
    mbStart >= nFiles \/ mbStart >= epochStart + epochSize

\* MbLimOf that yields the start of the slice.
MbLimStuck(mbStart, mbSize, nFiles) == mbStart

MbLimOf(mbStart, mbSize, nFiles) ==
    IF mbStart + mbSize > nFiles THEN nFiles ELSE mbStart + mbSize

\* Lines 399-413: the exhausted test, mbLim, zero fill; opens the parallel
\* loop of lines 415-427.
GetMinibatch ==
    /\ phase = "loop"
    /\ IF Exhausted(m_mbStart, Len(files), m_epochStart, m_epochSize)
       THEN /\ ret' = "false"
            /\ UNCHANGED <<phase, m_labBuf, mbLim, nextIter, hist>>
       ELSE /\ phase' = "parallel"
            /\ mbLim' = MbLimOf(m_mbStart, m_mbSize, Len(files))
            /\ m_labBuf' = [k \in DOMAIN m_labBuf |-> 0]
            /\ nextIter' = 0
            /\ ret' = "none"
            /\ hist' = [hist EXCEPT !.featW = {}, !.labW = {}]
    /\ UNCHANGED <<endRet, readerVars, seedVars, poolVars, epochVars,
                   m_featBuf, wk>>

\* Line 418: the manifest index loop index i reads.
EntryIndex(i, mbStart) == i + mbStart

\* schedule(dynamic): an idle thread of the team takes the next index,
\* reads its manifest entry and decodes the image (lines 416-419).
Fetch(t) ==
    /\ phase = "parallel"
    /\ t <= nThreads
    /\ wk[t].pc = "idle"
    /\ nextIter < mbLim - m_mbStart
    /\ LET p == files[EntryIndex(nextIter, m_mbStart) + 1]
       IN  wk' = [wk EXCEPT ![t] = [pc |-> "crop", i |-> nextIter, p |-> p,
                                    img |-> imread(p.path), rng |-> NoRng]]
    /\ nextIter' = nextIter + 1
    /\ UNCHANGED <<endRet, phase, readerVars, seedVars, poolVars, epochVars,
                   bufVars, mbLim, ret, hist>>

\* The Apply calls of a transform that hold a generator.
Holders(pc) == Cardinality({ t \in Threads : wk[t].pc = pc })

\* CropAcquire that constructs a generator without looking into the pool.
CropAcquireAlwaysCreates(t) ==
    /\ phase = "parallel"
    /\ wk[t].pc = "crop"
    /\ cropRngs' = cropRngs
    /\ cropMade' = cropMade + 1
    /\ wk' = [wk EXCEPT ![t].pc = "cropHeld",
                        ![t].rng = make_rng(cropMade + 1, cropSeed)]
    /\ hist' = [hist EXCEPT !.cropPeak = Max(@, Holders("cropHeld") + 1)]
    /\ UNCHANGED <<endRet, phase, readerVars, seedVars, scaleRngs, scaleMade,
                   epochVars, bufVars, mbLim, nextIter, ret>>

\* CropAcquire that leaves a pooled generator in the pool while using it.
CropAcquireShared(t) ==
    /\ phase = "parallel"
    /\ wk[t].pc = "crop"
    /\ LET r == pop_or_create(cropRngs, cropMade + 1, cropSeed)
       IN  /\ cropRngs' = cropRngs
           /\ cropMade' = IF r.created THEN cropMade + 1 ELSE cropMade
           /\ wk' = [wk EXCEPT ![t].pc = "cropHeld", ![t].rng = r.rng]
    /\ hist' = [hist EXCEPT !.cropPeak = Max(@, Holders("cropHeld") + 1)]
    /\ UNCHANGED <<endRet, phase, readerVars, seedVars, scaleRngs, scaleMade,
                   epochVars, bufVars, mbLim, nextIter, ret>>

\* CropTransform::Apply, lines 78-79.
CropAcquire(t) ==
    /\ phase = "parallel"
    /\ wk[t].pc = "crop"
    /\ LET r == pop_or_create(cropRngs, cropMade + 1, cropSeed)
       IN  /\ cropRngs' = r.stack
           /\ cropMade' = IF r.created THEN cropMade + 1 ELSE cropMade
           /\ wk' = [wk EXCEPT ![t].pc = "cropHeld", ![t].rng = r.rng]
    /\ hist' = [hist EXCEPT !.cropPeak = Max(@, Holders("cropHeld") + 1)]
    /\ UNCHANGED <<endRet, phase, readerVars, seedVars, scaleRngs, scaleMade,
                   epochVars, bufVars, mbLim, nextIter, ret>>

\* CropTransform::Apply, lines 81-98. On an empty image the assertions of
\* GetCropRect (lines 140-141) end the process in a build that checks them;
\* otherwise the crop is the empty rectangle.
CropApply(t) ==
    /\ phase = "parallel"
    /\ wk[t].pc = "cropHeld"
    /\ \/ LET r == CropImage(wk[t].img, cfg, wk[t].rng)
          IN  /\ cropRngs' = push(cropRngs, r.rng)
              /\ wk' = [wk EXCEPT ![t].pc = "scale", ![t].img = r.img,
                                  ![t].rng = NoRng]
              /\ phase' = phase
       \/ /\ Empty(wk[t].img)
          /\ phase' = "aborted"
          /\ UNCHANGED <<cropRngs, wk>>
    /\ UNCHANGED <<endRet, readerVars, seedVars, scaleRngs, cropMade, scaleMade,
                   epochVars, bufVars, mbLim, nextIter, ret, hist>>

\* ScaleTransform::Apply, lines 217-221.
ScaleAcquire(t) ==
    /\ phase = "parallel"
    /\ wk[t].pc = "scale"
    /\ LET r == pop_or_create(scaleRngs, scaleMade + 1, scaleSeed)
       IN  /\ scaleRngs' = r.stack
           /\ scaleMade' = IF r.created THEN scaleMade + 1 ELSE scaleMade
           /\ wk' = [wk EXCEPT ![t].pc = "scaleHeld", ![t].rng = r.rng]
    /\ hist' = [hist EXCEPT !.scalePeak = Max(@, Holders("scaleHeld") + 1)]
    /\ UNCHANGED <<endRet, phase, readerVars, seedVars, cropRngs, cropMade,
                   epochVars, bufVars, mbLim, nextIter, ret>>

\* cv::resize (line 224) rejects an empty source image with a
\* cv::Exception.
ResizeThrows(img) == Empty(img)

\* ScaleApply that returns at once when handed an empty image.
ScaleApplySkipsEmpty(t) ==
    /\ phase = "parallel"
    /\ wk[t].pc = "scaleHeld"
    /\ LET r == IF Empty(wk[t].img) THEN [img |-> wk[t].img, rng |-> wk[t].rng]
                ELSE ScaleImage(wk[t].img, cfg, wk[t].rng)
       IN  /\ scaleRngs' = push(scaleRngs, r.rng)
           /\ wk' = [wk EXCEPT ![t].pc = "store", ![t].img = r.img,
                               ![t].rng = NoRng]
    /\ UNCHANGED <<endRet, phase, readerVars, seedVars, cropRngs, cropMade,
                   scaleMade, epochVars, bufVars, mbLim, nextIter, ret, hist>>

\* ScaleTransform::Apply, lines 223-227, then MeanTransform::Apply with no
\* mean image (a no-op). When cv::resize throws, the generator the call
\* holds is destroyed with it and the exception leaves the loop body; no
\* handler exists in GetMinibatch. An exception that leaves an OpenMP
\* parallel region ends the process; where the loop runs in the calling
\* thread alone it reaches the caller of GetMinibatch.
ScaleApply(t) ==
    /\ phase = "parallel"
    /\ wk[t].pc = "scaleHeld"
    /\ IF ResizeThrows(wk[t].img)
       THEN /\ phase' \in {"failed", "aborted"}
            /\ wk' = [wk EXCEPT ![t].pc = "thrown", ![t].rng = NoRng]
            /\ UNCHANGED scaleRngs
       ELSE LET r == ScaleImage(wk[t].img, cfg, wk[t].rng)
            IN  /\ scaleRngs' = push(scaleRngs, r.rng)
                /\ wk' = [wk EXCEPT ![t].pc = "store", ![t].img = r.img,
                                    ![t].rng = NoRng]
                /\ phase' = phase
    /\ UNCHANGED <<endRet, readerVars, seedVars, cropRngs, cropMade, scaleMade,
                   epochVars, bufVars, mbLim, nextIter, ret, hist>>

\* The elements of a transformed image, in buffer order.
Pixel(img, k) == <<img.path, img.x, img.y, img.size, img.flip, img.interp, k>>

\* The buffer indices (0-based) lines 425 and 426 write for loop index i.
FeatIndices(i) == { FeatDim * i + k : k \in 0 .. FeatDim - 1 }
LabIndex(i, label) == LabDim * i + label

\* Lines 423-426: copy the sample into its feature slot, set its label.
\* An index outside m_labBuf is undefined behaviour: the write lands
\* outside the buffer, and the process goes on or dies.
Store(t) ==
    /\ phase = "parallel"
    /\ wk[t].pc = "store"
    /\ LET i   == wk[t].i
           li  == LabIndex(i, wk[t].p.label)
           inb == 0 <= li /\ li < Len(m_labBuf)
       IN  /\ m_featBuf' = [k \in DOMAIN m_featBuf |->
                              IF (k - 1) \in FeatIndices(i)
                              THEN Pixel(wk[t].img, k - FeatDim * i)
                              ELSE m_featBuf[k]]
           /\ m_labBuf' = [k \in DOMAIN m_labBuf |->
                             IF k - 1 = li THEN 1 ELSE m_labBuf[k]]
           /\ hist' = [hist EXCEPT
                         !.featW = @ \cup { <<i, f>> : f \in FeatIndices(i) },
                         !.labW = @ \cup { <<i, li>> }]
           /\ \/ phase' = "parallel"
              \/ ~inb /\ phase' = "aborted"
    /\ wk' = [wk EXCEPT ![t] = IdleWk]
    /\ UNCHANGED <<endRet, readerVars, seedVars, poolVars, epochVars, mbLim,
                   nextIter, ret>>

\* Matrix::SetValue(rows, cols, data): the leading rows * cols elements.
SetValue(rows, cols, data) ==
    [cols |-> cols, data |-> SubSeq(data, 1, rows * cols)]

\* What the last successful GetMinibatch handed to the destination matrices
\* (lines 430-431); the buffers are not touched again before the next call.
features == SetValue(FeatDim, hist.cols, m_featBuf)
labels   == SetValue(LabDim, hist.cols, m_labBuf)

\* Lines 429-435, after the implicit barrier that ends the parallel loop.
GetMinibatchEnd ==
    /\ phase = "parallel"
    /\ nextIter = mbLim - m_mbStart
    /\ \A t \in Threads : wk[t].pc = "idle"
    /\ LET mbSize == mbLim - m_mbStart
       IN  hist' = [hist EXCEPT !.delivered = @ + mbSize, !.cols = mbSize,
                                !.featW = {}, !.labW = {}]
    /\ m_mbStart' = mbLim
    /\ ret' = "true"
    /\ phase' = "loop"
    /\ mbLim' = 0
    /\ nextIter' = 0
    /\ UNCHANGED <<endRet, readerVars, seedVars, poolVars, m_epoch,
                   m_epochSize, m_epochStart, m_mbSize, bufVars, wk>>

\* ------------------------------------------------- ImageReader::DataEnd
EndDataTypes == {"endDataNull", "endDataEpoch", "endDataSet", "endDataSentence"}

\* The value DataEnd computes (lines 441-457); endDataNull leaves ret false.
DataEndValue(endDataType) ==
    CASE endDataType = "endDataEpoch" -> m_mbStart < m_epochStart + m_epochSize
      [] endDataType = "endDataSet" -> m_mbStart >= Len(files)
      [] endDataType = "endDataSentence" -> TRUE
      [] OTHER -> FALSE

\* DataEnd reads the position and changes nothing; assert(false) of line
\* 445 ends the process in a build that checks assertions.
DataEnd(endDataType) ==
    /\ phase \in {"configured", "loop"}
    /\ \/ /\ endRet' = IF DataEndValue(endDataType) THEN "true" ELSE "false"
          /\ phase' = phase
       \/ /\ endDataType = "endDataNull"
          /\ phase' = "aborted"
          /\ endRet' = endRet
    /\ UNCHANGED <<readerVars, seedVars, poolVars, epochVars, bufVars, mbLim,
                   nextIter, wk, ret, hist>>

\* ------------------------------------------------------------------ Next
\* The calls of the reader's client and the steps of the team's threads.
\* setups are the <<manifest, configuration, randomize, team size>> that
\* Init may be given; epochs and reqs are the epoch indices and requested
\* epoch sizes StartMinibatchLoop may be given.
NextOver(setups, epochs, reqs) ==
    \/ \E u \in setups : ReaderInit(u[1], u[2], u[3], u[4])
    \/ \E mbSize \in 1 .. MaxMb, epoch \in epochs, req \in reqs :
          StartMinibatchLoop(mbSize, epoch, req)
    \/ \E seed \in 0 .. MaxSeed : SetRandomSeed(seed)
    \/ GetMinibatch
    \/ \E t \in Threads : Fetch(t)
    \/ \E t \in Threads : CropAcquire(t)
    \/ \E t \in Threads : CropApply(t)
    \/ \E t \in Threads : ScaleAcquire(t)
    \/ \E t \in Threads : ScaleApply(t)
    \/ \E t \in Threads : Store(t)
    \/ GetMinibatchEnd

CenterCfg == CHOOSE c \in Configs : c.cropType = "Center"
RandomCfg == CHOOSE c \in Configs : c.cropType = "Random"

\* Spec: the client protocol over every manifest, read with
\* randomize=none by a team of one thread (the loop of GetMinibatch then
\* runs its iterations in order).
Setups == { <<m, CenterCfg, none, 1>> : m \in Manifests }

Next == NextOver(Setups, 0 .. MaxEpoch, ReqValues)

Spec == Init /\ [][Next]_vars

\* SpecRand: the same protocol with randomize=auto, over the manifests of
\* up to MaxShuffled lines.
RandSetups ==
    { <<m, CenterCfg, auto, 1>> :
        m \in { x \in Manifests : Len(x) <= MaxShuffled } }

NextRand == NextOver(RandSetups, 0 .. MaxEpoch, ReqValues)

SpecRand == Init /\ [][NextRand]_vars

\* SpecPar: one pass over a manifest of MaxMb lines by teams of up to
\* MaxThreads threads, under both configurations.
ParManifest(off, step) ==
    [k \in 1 .. MaxMb |->
        [path |-> k, label |-> LabelOf(step * k, off, LabDim + 1)]]

\* Two manifests whose first line carries the label labelDim: the labels
\* run up from it in one and down from it in the other.
ParManifests == { ParManifest(1, 1), ParManifest(0, LabDim) }

ParSetups ==
    { <<m, c, none, n>> : m \in ParManifests, c \in Configs, n \in Threads }

NextPar == NextOver(ParSetups, {0}, {requestDataSize})

SpecPar == Init /\ [][NextPar]_vars

\* SpecBad: one pass over a manifest of MaxMb lines one of which names a
\* file that cannot be decoded, by teams of up to MaxThreads threads.
BadManifest(b) ==
    [k \in 1 .. MaxMb |-> [path |-> IF k = b THEN 0 ELSE k, label |-> 0]]

BadSetups ==
    { <<BadManifest(b), c, none, n>> :
        b \in 1 .. MaxMb, c \in Configs, n \in Threads }

NextBad == NextOver(BadSetups, {0}, {requestDataSize})

SpecBad == Init /\ [][NextBad]_vars

\* SpecEnd: the whole client protocol, DataEnd included, over every
\* manifest read with randomize=none; loops start at the first or the last
\* epoch and ask for MaxReq samples or the full data set.
NextEnd ==
    \/ NextOver(Setups, {0, MaxEpoch}, {MaxReq, requestDataSize})
    \/ \E e \in EndDataTypes : DataEnd(e)

SpecEnd == Init /\ [][NextEnd]_vars

\* SpecShuffle: the whole client protocol with randomize none and auto,
\* over the manifests of up to MaxShuffled lines with labels below
\* labelDim; loops start at the last epoch.
ShuffleSetups ==
    { <<[k \in 1 .. n |-> [path |-> k, label |-> LabelOf(k, 0, LabDim)]],
        CenterCfg, r, 1>> : n \in 1 .. MaxShuffled, r \in {none, auto} }

NextShuffle ==
    \/ NextOver(ShuffleSetups, {MaxEpoch}, {MaxReq, requestDataSize})
    \/ \E e \in EndDataTypes : DataEnd(e)

SpecShuffle == Init /\ [][NextShuffle]_vars

\* SpecCfg: Init given each of RandValues as its randomize parameter, then
\* the client protocol over a manifest of MaxShuffled lines.
RandValues ==
    { none, auto, <<"N", "o", "n", "e">>, <<"A", "U", "T", "O">>,
      <<"n", "o">>, <<"a">>, <<"a", "l", "l">>, <<"n", "o", "w">>,
      <<"n", "o", "n", "e", "s">> }

CfgSetups ==
    { <<[k \in 1 .. MaxShuffled |-> [path |-> k, label |-> LabelOf(k, 0, LabDim)]],
        CenterCfg, r, 1>> : r \in RandValues }

NextCfg == NextOver(CfgSetups, {0}, {requestDataSize})

SpecCfg == Init /\ [][NextCfg]_vars

\* SpecCrop: one-line manifests naming an image of each size up to MaxDim
\* by MaxDim, cropped at the centre or at random with each ratio
\* num / den in (0, 1] of denominator up to MaxDen.
Ratios == { r \in (1 .. MaxDen) \X (1 .. MaxDen) : r[1] <= r[2] }

CropConfigs ==
    { [cropType |-> ty, ratioNum |-> r[1], ratioDen |-> r[2],
       hFlip |-> FALSE, nInterp |-> 1] :
        ty \in {"Center", "Random"}, r \in Ratios }

CropSetups ==
    { << <<[path |-> 10 * r + c, label |-> 0]>>, config, none, 1 >> :
        r \in 1 .. MaxDim, c \in 1 .. MaxDim, config \in CropConfigs }

NextCrop == NextOver(CropSetups, {0}, {requestDataSize})

SpecCrop == Init /\ [][NextCrop]_vars

TypeOK ==
    phase \in {"constructed", "configured", "loop", "parallel", "error",
               "failed", "aborted"}

\* =================================================================== claims
\* GetMinibatch has returned r and nothing was called since.
Returned(r) == phase = "loop" /\ ret = r

\* Manifest index at which the last successful GetMinibatch began.
BatchStart == m_mbStart - hist.cols

\* The last StartMinibatchLoop met its requirement on requestedEpochSamples.
LoopOk == hist.req = requestDataSize \/ m_epochSize % m_mbSize = 0

\* ---------------------------------------------------------------------- C1
\* C1: after any StartMinibatchLoop, in any reachable reader state, the
\* GetMinibatch calls that follow have delivered exactly epochSize samples
\* (rounded down to whole minibatches) when GetMinibatch first returns
\* exhausted. Read generously: the total may also be what the manifest
\* holds from epochStart on, when that is less than epochSize.
C1_EpochDelivered ==
    (Returned("false") /\ LoopOk) =>
        hist.delivered \in { m_epochSize,
                             (m_epochSize \div m_mbSize) * m_mbSize,
                             Min(m_epochSize, Len(files) - m_epochStart) }

\* ---------------------------------------------------------------------- C2
\* C2: after StartMinibatchLoop(mbSize, epoch, n) with
\* epoch * epochSize < |manifest|, the first successful GetMinibatch
\* delivers the samples beginning at manifest index epochStart =
\* epoch * epochSize, whatever operations came before.
C2_FirstBatchAtEpochStart ==
    (/\ Returned("true")
     /\ hist.delivered = hist.cols
     /\ m_epoch * m_epochSize < Len(files)) =>
        /\ m_epochStart = m_epoch * m_epochSize
        /\ BatchStart = m_epochStart
        /\ features.data[1][1] = files[m_epochStart + 1].path

\* ---------------------------------------------------------------------- C3
\* C3: GetMinibatch returns false if and only if mbStart >= |manifest| or
\* mbStart >= epochStart + epochSize; in every other state it returns true,
\* delivers exactly the manifest entries at indices [mbStart, mbLim) with
\* mbLim = min(mbStart + mbSize, |manifest|), and sets mbStart to mbLim.
C3_Step ==
    /\ (phase = "loop" /\ phase' = "parallel") =>
          /\ ~(m_mbStart >= Len(files) \/ m_mbStart >= m_epochStart + m_epochSize)
          /\ mbLim' = Min(m_mbStart + m_mbSize, Len(files))
          /\ m_mbStart' = m_mbStart
    /\ (phase = "loop" /\ ret # "false" /\ ret' = "false") =>
          (m_mbStart >= Len(files) \/ m_mbStart >= m_epochStart + m_epochSize)
    /\ (phase = "parallel" /\ phase' = "parallel") => m_mbStart' = m_mbStart
    /\ (phase = "parallel" /\ phase' = "loop") =>
          /\ ret' = "true"
          /\ m_mbStart' = mbLim
          /\ features'.cols = mbLim - m_mbStart
          /\ Len(features'.data) = FeatDim * (mbLim - m_mbStart)
          /\ \A i \in 0 .. mbLim - m_mbStart - 1 : \A k \in 1 .. FeatDim :
                /\ features'.data[FeatDim * i + k][1] = files[m_mbStart + i + 1].path
                /\ features'.data[FeatDim * i + k][7] = k

C3_GetMinibatch == [][C3_Step]_vars

\* A batch cut short by the end of the manifest has been delivered.
C3_Witness ==
    /\ Returned("true")
    /\ hist.cols = 1
    /\ m_mbSize = 2
    /\ m_mbStart = Len(files)

\* ---------------------------------------------------------------------- C4
C4_Case == ~m_imgListRand /\ hist.loops = 1 /\ m_epoch = 0 /\ LoopOk

\* The slices follow the manifest: every batch begins where the one before
\* ended, slot i holds the image of manifest entry mbStart + i, the label
\* write of slot i is addressed with that entry's label, and the call after
\* the last batch returns exhausted.
C4_SliceOrder ==
    C4_Case =>
        /\ phase = "parallel" =>
              /\ m_mbStart = hist.delivered
              /\ \A w \in hist.labW :
                    w[2] = LabDim * w[1] + files[m_mbStart + w[1] + 1].label
        /\ Returned("true") =>
              /\ m_mbStart = hist.delivered
              /\ \A i \in 0 .. hist.cols - 1 :
                    /\ files[BatchStart + i + 1].path = BatchStart + i + 1
                    /\ \A k \in 1 .. FeatDim :
                          features.data[FeatDim * i + k][1] = BatchStart + i + 1
        /\ Returned("false") => hist.delivered = Min(m_epochSize, Len(files))

\* C4: with randomize=none, after Init and StartMinibatchLoop(mbSize, 0, n)
\* the successful GetMinibatch calls deliver consecutive slices of the
\* manifest in file order: slot i of a batch holds the image and the label
\* of manifest entry mbStart + i, no entry is skipped or delivered twice
\* between batches, and the call after the last batch of the epoch returns
\* exhausted.
C4_FileOrder ==
    /\ C4_SliceOrder
    /\ (C4_Case /\ Returned("true")) =>
          \A i \in 0 .. hist.cols - 1 :
              /\ \E j \in 0 .. LabDim - 1 :
                    /\ j = files[BatchStart + i + 1].label
                    /\ labels.data[LabDim * i + j + 1] = 1
              /\ \A j \in 0 .. LabDim - 1 :
                    j # files[BatchStart + i + 1].label =>
                        labels.data[LabDim * i + j + 1] = 0

\* ---------------------------------------------------------------------- C5
\* C5: for every minibatch a successful GetMinibatch produces, for every
\* manifest the loader accepts, each of the actualBatchSize rows of the
\* label buffer has exactly one 1, at index labelDim * i + label of sample
\* i, and zeros elsewhere, and the buffer sums to actualBatchSize.
C5_OneHot ==
    Returned("true") =>
        /\ \A i \in 0 .. hist.cols - 1 : \A j \in 0 .. LabDim - 1 :
              labels.data[LabDim * i + j + 1] =
                  (IF j = files[BatchStart + i + 1].label THEN 1 ELSE 0)
        /\ SumSeq(labels.data) = hist.cols

\* ---------------------------------------------------------------------- C6
\* C6: within one GetMinibatch call, under every interleaving, the worker
\* for sample index i writes only featureBuffer[featureDim * i,
\* featureDim * (i + 1)) and only row i of the label buffer, so no buffer
\* element is written by two workers.
C6_DisjointWrites ==
    phase = "parallel" =>
        /\ \A w \in hist.featW :
              FeatDim * w[1] <= w[2] /\ w[2] < FeatDim * (w[1] + 1)
        /\ \A w \in hist.labW :
              LabDim * w[1] <= w[2] /\ w[2] < LabDim * (w[1] + 1)
        /\ \A a, b \in hist.featW : a[2] = b[2] => a[1] = b[1]
        /\ \A a, b \in hist.labW : a[2] = b[2] => a[1] = b[1]

\* ---------------------------------------------------------------------- C7
\* C7: under any interleaving of concurrent Apply calls, a generator taken
\* from a pool is held by at most one worker from pop_or_create to push: no
\* two workers hold the same generator, and a held generator is not in the
\* pool for another worker to take.
HeldPcs == {"cropHeld", "scaleHeld"}

C7_ExclusiveGenerators ==
    /\ \A t1, t2 \in Threads :
          (t1 # t2 /\ wk[t1].pc \in HeldPcs /\ wk[t1].pc = wk[t2].pc) =>
              wk[t1].rng.id # wk[t2].rng.id
    /\ \A t \in Threads :
          /\ wk[t].pc = "cropHeld" =>
                \A k \in DOMAIN cropRngs : cropRngs[k].id # wk[t].rng.id
          /\ wk[t].pc = "scaleHeld" =>
                \A k \in DOMAIN scaleRngs : scaleRngs[k].id # wk[t].rng.id
    /\ \A j, k \in DOMAIN cropRngs : j # k => cropRngs[j].id # cropRngs[k].id
    /\ \A j, k \in DOMAIN scaleRngs : j # k => scaleRngs[j].id # scaleRngs[k].id

\* Two workers are inside CropTransform::Apply at once, each holding a
\* generator.
C7_Witness ==
    \E t1, t2 \in Threads :
        /\ t1 # t2
        /\ wk[t1].pc = "cropHeld"
        /\ wk[t2].pc = "cropHeld"

\* ---------------------------------------------------------------------- C8
\* C8: after SetRandomSeed(s), every pool generator created afterwards (by
\* an acquire that finds the Crop or Scale pool empty) is seeded with s;
\* generators already in the pool keep their earlier seed and state.
C8_Step ==
    /\ \A t \in Threads :
          (/\ hist.seedSet
           /\ wk[t].pc = "crop" /\ wk'[t].pc = "cropHeld"
           /\ cropMade' = cropMade + 1) => wk'[t].rng.seed = m_seed
    /\ \A t \in Threads :
          (/\ hist.seedSet
           /\ wk[t].pc = "scale" /\ wk'[t].pc = "scaleHeld"
           /\ scaleMade' = scaleMade + 1) => wk'[t].rng.seed = m_seed
    /\ (m_seed' # m_seed \/ hist'.seedSet # hist.seedSet) =>
          UNCHANGED <<cropRngs, scaleRngs>>

C8_SeedReachesPools == [][C8_Step]_vars

\* ---------------------------------------------------------------------- C9
\* The buffers of the first minibatch when the loop iterations run one
\* after the other in index order, which is one of the schedules of any
\* team: each sample takes the generator the one before it pushed back.
RECURSIVE SeqFeatures(_, _, _, _)
SeqFeatures(entries, config, cg, sg) ==
    IF entries = <<>> THEN <<>>
    ELSE LET c == CropImage(imread(Head(entries).path), config, cg)
             z == ScaleImage(c.img, config, sg)
         IN  [k \in 1 .. FeatDim |-> Pixel(z.img, k)]
             \o SeqFeatures(Tail(entries), config, c.rng, z.rng)

\* C9: two runs with the same seed, the same manifest order
\* (randomize=none), the same number of worker threads and jitter type None
\* produce identical feature buffers for every minibatch, for every
\* scheduling of the workers: so every run's first minibatch equals the one
\* of the run that schedules the iterations in index order.
C9_Reproducible ==
    (Returned("true") /\ BatchStart = 0) =>
        features.data = SeqFeatures(SubSeq(files, 1, hist.cols), cfg,
                                    make_rng(1, cropSeed), make_rng(1, scaleSeed))

\* The in-order schedule is a run of a team of two: its buffers are reached.
C9_InOrderRun ==
    /\ Returned("true") /\ BatchStart = 0 /\ hist.cols = 2
    /\ nThreads = 2
    /\ cfg.cropType = "Random"
    /\ features.data = SeqFeatures(SubSeq(files, 1, hist.cols), cfg,
                                   make_rng(1, cropSeed), make_rng(1, scaleSeed))

\* --------------------------------------------------------------------- C10
\* C10: StartMinibatchLoop sets epochSize to |manifest| when
\* requestedEpochSamples is the use-full-dataset value and to
\* requestedEpochSamples otherwise, sets epochStart = epoch * epochSize,
\* and, when that value is >= |manifest|, resets both epochStart and
\* mbStart to 0.
C10_StartSetsEpoch ==
    (phase = "loop" /\ ret = "none") =>
        /\ m_epochSize = (IF hist.req = requestDataSize THEN Len(files)
                          ELSE hist.req)
        /\ IF m_epoch * m_epochSize >= Len(files)
           THEN m_epochStart = 0 /\ m_mbStart = 0
           ELSE m_epochStart = m_epoch * m_epochSize

\* A loop restarted past the end of the manifest after samples were read.
C10_Witness ==
    /\ phase = "loop" /\ ret = "none"
    /\ hist.loops = 2
    /\ m_epoch = 1
    /\ hist.req = requestDataSize
    /\ m_featBuf[1] # ZeroElem
    /\ m_mbStart = 0

\* --------------------------------------------------------------------- C11
\* C11: StartMinibatchLoop called with a requestedEpochSamples that is
\* neither the full-dataset value nor an exact multiple of mbSize fails
\* with a configuration error: no minibatch loop is ever open on such a
\* request.
C11_NonMultipleRejected ==
    phase \in {"loop", "parallel"} => LoopOk

\* --------------------------------------------------------------------- C12
\* A sample of the running slice whose image did not decode is in a
\* worker's hands.
UndecodedInFlight == \E t \in Threads : wk[t].pc # "idle" /\ Empty(wk[t].img)

\* C12: there is no partial failure of a fetch: GetMinibatch reports
\* success only when every sample of the slice [mbStart, mbLim) was decoded,
\* and then delivers the whole slice; once a sample of the slice has failed
\* to decode, the call does not report success, does not hand the buffers
\* over and does not advance mbStart.
C12_Step ==
    /\ (phase = "parallel" /\ phase' = "loop") =>
          /\ \A i \in 0 .. mbLim - m_mbStart - 1 :
                ~Empty(imread(files[m_mbStart + i + 1].path))
          /\ hist'.cols = mbLim - m_mbStart
    /\ (phase = "parallel" /\ UndecodedInFlight) =>
          /\ phase' # "loop"
          /\ ret' # "true"
          /\ m_mbStart' = m_mbStart
          /\ hist'.cols = hist.cols
          /\ hist'.delivered = hist.delivered

C12_NoPartialFailure == [][C12_Step]_vars

\* The fetch has failed on one sample after another sample of the same
\* slice was written to the buffers.
C12_Witness ==
    /\ phase = "failed"
    /\ \E t \in Threads : wk[t].pc = "thrown"
    /\ hist.featW # {}

\* --------------------------------------------------------------------- C13
\* A step that can only be a StartMinibatchLoop call.
StartLike ==
    /\ phase \in {"configured", "loop"}
    /\ phase' \in {"loop", "aborted"}
    /\ m_mbSize' > 0
    /\ UNCHANGED <<m_seed, endRet>>
    /\ phase' = "loop" => (ret' = "none" /\ hist'.delivered = 0)

\* C13: the epoch state (epoch, epochSize, epochStart, mbStart, mbSize) is
\* changed only by StartMinibatchLoop and by GetMinibatch: a successful
\* GetMinibatch changes only mbStart, a GetMinibatch that returns exhausted
\* changes nothing, and DataEnd and SetRandomSeed leave the whole epoch
\* state unchanged.
C13_Step ==
    /\ (phase # "constructed" /\ epochVars' # epochVars) =>
          (StartLike \/ (phase = "parallel" /\ phase' = "loop"))
    /\ (phase = "parallel" \/ phase' = "parallel") =>
          UNCHANGED <<m_epoch, m_epochSize, m_epochStart, m_mbSize>>
    /\ phase' = "parallel" => m_mbStart' = m_mbStart
    /\ (ret # "false" /\ ret' = "false") => UNCHANGED epochVars
    /\ endRet' # endRet => UNCHANGED epochVars
    /\ (m_seed' # m_seed \/ hist'.seedSet # hist.seedSet) => UNCHANGED epochVars

C13_EpochStateFrame == [][C13_Step]_vars

\* DataEnd and SetRandomSeed were called and the loop, advanced past the
\* start of the manifest, has been drained.
C13_Witness ==
    /\ Returned("false")
    /\ m_mbStart > 0
    /\ hist.seedSet /\ m_seed = MaxSeed
    /\ endRet = "true"

\* --------------------------------------------------------------------- C14
\* s is the word w, letter case aside.
IsWord(s, w) ==
    /\ Len(s) = Len(w)
    /\ \A k \in 1 .. Len(w) : tolower(s[k]) = tolower(w[k])

\* C14: the randomize parameter is resolved at Init so that auto enables
\* shuffling at every StartMinibatchLoop, none disables it, and every other
\* value (a proper prefix of none or auto included) makes Init fail with a
\* configuration error.
C14_RandomizeResolved ==
    /\ phase \in {"configured", "loop", "parallel"} =>
          \/ IsWord(randomize, auto) /\ m_imgListRand
          \/ IsWord(randomize, none) /\ ~m_imgListRand
    /\ phase = "error" =>
          ~IsWord(randomize, auto) /\ ~IsWord(randomize, none)

\* --------------------------------------------------------------------- C15
\* Positions of a loop iteration at which its image has been cropped.
CroppedPcs == {"scale", "scaleHeld", "store", "thrown"}

\* C15: for every image with rows > 0 and cols > 0 and every crop ratio in
\* (0, 1], the crop rectangle is a square of side cropSize =
\* floor(min(rows, cols) * ratio) that lies inside the image: for Center
\* crop the offsets are exactly ((cols - cropSize) / 2,
\* (rows - cropSize) / 2), and for Random crop 0 <= xOff <= cols - cropSize
\* and 0 <= yOff <= rows - cropSize.
C15_CropInsideImage ==
    \A t \in Threads :
        (wk[t].pc \in CroppedPcs /\ ~Empty(imread(wk[t].p.path))) =>
            LET o  == imread(wk[t].p.path)
                sz == (Min(o.rows, o.cols) * cfg.ratioNum) \div cfg.ratioDen
                im == wk[t].img
            IN  /\ im.size = sz /\ im.rows = sz /\ im.cols = sz
                /\ 0 <= im.x /\ im.x <= o.cols - sz
                /\ 0 <= im.y /\ im.y <= o.rows - sz
                /\ cfg.cropType = "Center" =>
                      /\ im.x = (o.cols - sz) \div 2
                      /\ im.y = (o.rows - sz) \div 2

\* A random crop was placed away from the corner of an image that is
\* larger than the crop.
C15_Witness ==
    \E t \in Threads :
        /\ wk[t].pc = "scale"
        /\ cfg.cropType = "Random"
        /\ wk[t].img.size > 0
        /\ wk[t].img.x > 0
        /\ wk[t].img.size < ImgRows(wk[t].p.path)

\* --------------------------------------------------------------------- C16
\* s and r hold the same entries, each as often.
SameEntries(s, r) ==
    /\ Len(s) = Len(r)
    /\ \A e \in {s[k] : k \in DOMAIN s} \cup {r[k] : k \in DOMAIN r} :
          Cardinality({k \in DOMAIN s : s[k] = e})
              = Cardinality({k \in DOMAIN r : r[k] = e})

\* C16: the manifest is changed only by StartMinibatchLoop and only when
\* randomization is enabled, and then only by permuting it: after any
\* sequence of StartMinibatchLoop, GetMinibatch, DataEnd and SetRandomSeed
\* calls it holds the same multiset of (path, label) entries as after
\* Init, and with randomize=none its order is the file order.
C16_Step ==
    /\ (phase # "constructed" /\ files' # files) =>
          (StartLike /\ m_imgListRand /\ SameEntries(files', files))
    /\ phase' # "constructed" =>
          /\ SameEntries(files', hist'.loaded)
          /\ IsWord(randomize', none) => files' = hist'.loaded

C16_ManifestFrame == [][C16_Step]_vars

\* A shuffled manifest, out of file order, is being read while DataEnd and
\* SetRandomSeed have been called.
C16_Witness ==
    /\ Returned("true")
    /\ m_imgListRand
    /\ files # hist.loaded
    /\ hist.seedSet
    /\ endRet # "none"

\* --------------------------------------------------------------------- C17
\* C17: for each transform's pool a generator is constructed only by an
\* acquire that finds the pool empty, so every constructed generator is
\* either in the pool or held by an Apply call in flight, the number ever
\* constructed never exceeds the largest number of Apply calls that were
\* in flight at the same time, and whenever no Apply is in flight every
\* constructed generator is back in the pool.
C17_PoolBounded ==
    /\ Len(cropRngs) + Holders("cropHeld") = cropMade
    /\ Len(scaleRngs) + Holders("scaleHeld") = scaleMade
    /\ cropMade <= hist.cropPeak
    /\ scaleMade <= hist.scalePeak
    /\ Holders("cropHeld") = 0 => Len(cropRngs) = cropMade
    /\ Holders("scaleHeld") = 0 => Len(scaleRngs) = scaleMade

\* A loop was drained by a team of two whose crop calls overlapped and
\* whose scale calls did not: two crop generators and one scale generator
\* exist and all are back in their pools.
C17_Witness ==
    /\ Returned("false")
    /\ nThreads = 2
    /\ cropMade = 2 /\ hist.cropPeak = 2 /\ Len(cropRngs) = 2
    /\ scaleMade = 1 /\ hist.scalePeak = 1 /\ Len(scaleRngs) = 1

\* --------------------------------------------------------------------- C18
\* C18: in every reachable state after Init, for any sequence of
\* StartMinibatchLoop and GetMinibatch calls, mbStart <= |manifest|, and
\* after any StartMinibatchLoop epochStart is 0 or less than |manifest|;
\* hence every manifest index mbStart + i that GetMinibatch reads is valid
\* and every batch has between 1 and mbSize samples.
C18_PositionBounds ==
    phase # "constructed" =>
        /\ 0 <= m_mbStart /\ m_mbStart <= Len(files)
        /\ m_epochStart = 0 \/ m_epochStart < Len(files)
        /\ phase = "parallel" =>
              /\ mbLim <= Len(files)
              /\ 1 <= mbLim - m_mbStart /\ mbLim - m_mbStart <= m_mbSize
              /\ \A t \in Threads : wk[t].pc # "idle" =>
                    /\ 0 <= wk[t].i + m_mbStart
                    /\ wk[t].i + m_mbStart < Len(files)
        /\ Returned("true") => (1 <= hist.cols /\ hist.cols <= m_mbSize)

\* The last sample of the manifest is being read in a batch cut short.
C18_Witness ==
    /\ phase = "parallel"
    /\ mbLim = Len(files)
    /\ mbLim - m_mbStart < m_mbSize
    /\ m_epochStart > 0
    /\ \E t \in Threads : wk[t].pc = "store" /\ wk[t].i + m_mbStart = Len(files) - 1

\* --------------------------------------------------------------------- C19
\* Successful GetMinibatch calls since the last StartMinibatchLoop: every
\* batch but the last holds mbSize samples.
Batches == (hist.delivered + m_mbSize - 1) \div m_mbSize

\* C19: fetching terminates: every successful GetMinibatch strictly
\* increases mbStart, so after any StartMinibatchLoop with mbSize > 0 the
\* caller has received at most ceil(|manifest| / mbSize) successful
\* batches, and once GetMinibatch has returned exhausted it returns
\* exhausted again until the next StartMinibatchLoop.
C19_Step ==
    /\ (phase = "parallel" /\ phase' = "loop") =>
          /\ ret' = "true"
          /\ m_mbStart' > m_mbStart
    /\ (phase' \in {"loop", "parallel"} /\ hist'.loops > 0) =>
          (hist'.delivered + m_mbSize' - 1) \div m_mbSize'
              <= (Len(files') + m_mbSize' - 1) \div m_mbSize'
    /\ (phase = "loop" /\ ret = "false") =>
          /\ phase' # "parallel"
          /\ ret' # "true"
          /\ ret' # "false" => StartLike

C19_Terminates == [][C19_Step]_vars

\* The full count of batches was read before exhausted came back.
C19_Witness ==
    /\ Returned("false")
    /\ m_mbSize = 2
    /\ Len(files) = 3
    /\ Batches = 2

====
